---- MODULE Spec2Model ----
(***************************************************************************)
(* SimpleVector<Type> over ArrayPtr<Type> (simple_vector.h, array_ptr.h). *)
(*                                                                         *)
(* The heap is modelled explicitly: an allocation made by new Type[n] is   *)
(* an entry of `heap` holding n slots, and an ArrayPtr is the index of    *)
(* the allocation it points to (NULL for nullptr).  Every public          *)
(* operation of SimpleVector is one atomic action (the code is            *)
(* single-threaded).  An access through a null pointer is undefined       *)
(* behaviour; the build turns it into a crash, recorded in `fault`.       *)
(*                                                                         *)
(* Spec uses two arrays, SpecOne one array in a larger heap, SpecClass    *)
(* one array of a class Type whose move assignment can throw, and SpecPtr *)
(* two ArrayPtr objects used on their own, with Release.                  *)
(***************************************************************************)
EXTENDS Integers, Sequences, FiniteSets, TLC

\* ---------------------------------------------------------------- bounds
\* number of Type slots the heap holds when one array is in use
HeapSize == 6
\* number of Type slots the heap holds when two arrays are in use
PairHeap == 3
\* largest size / capacity / index argument passed to an operation
MaxArg == 4
\* element values are 0..MaxVal
MaxVal == 1

\* ------------------------------------------------------------- constants
Names == {"A", "B"}
\* the ArrayPtr objects used on their own
Bufs == {"P", "Q"}
Values == 0 .. MaxVal
\* nullptr
NULL == 0
\* Type(): the value-initialised element
Default == 0
\* the indeterminate content of a slot of new Type[n] that was never written
Indet == -1
\* the value a move assignment leaves in its source when Type is a class
Moved == -2
\* Type's move assignment never throws
Never == -1
Ptrs == 1 .. HeapSize

VARIABLES
    heap,   \* the allocations some ArrayPtr points to: slot contents, << >> if none
    lost,   \* slots of allocations that were never deleted and that no ArrayPtr points to
    vec,    \* the fields of each SimpleVector
    live,   \* whether the SimpleVector is constructed
    fault,  \* "none", or the undefined access that ended the run
    buf,    \* raw_ptr_ of each ArrayPtr object the caller uses on its own
    blive,  \* whether that ArrayPtr object is constructed
    held    \* the raw pointers Release handed to the caller, not yet deleted

vars == <<heap, lost, vec, live, fault, buf, blive, held>>

\* the state of the ArrayPtr objects used on their own
bufs == <<buf, blive, held>>

\* the state of the SimpleVector objects
vecs == <<vec, live>>

\* ------------------------------------------------------------------ heap
\* a machine state inside one operation: the heap, the fault flag (an
\* undefined access, or "throw" while an exception of Type propagates) and
\* the element type.  Type is a template parameter: with left = Never it is
\* a scalar, whose move assignment copies and cannot throw; otherwise it is a
\* class whose move assignment leaves Moved in its source and throws once
\* left assignments have been made.
Mach(h, f) == [h |-> h, f |-> f, left |-> Never]

RECURSIVE SumLen(_, _)
SumLen(h, p) == IF p = 0 THEN 0 ELSE Len(h[p]) + SumLen(h, p - 1)

\* slots currently allocated
Used(h) == SumLen(h, HeapSize)

Allocated(h, p) == p \in Ptrs /\ h[p] # << >>

FreePtrs(h) == {p \in Ptrs : h[p] = << >>}

MinOf(S) == CHOOSE x \in S : \A y \in S : x <= y

\* *ptr[i] = v
Store(m, p, i, v) ==
    IF m.f # "none" THEN m
    ELSE IF p = NULL THEN [m EXCEPT !.f = "null"]
    ELSE IF ~Allocated(m.h, p) THEN [m EXCEPT !.f = "dangling"]
    ELSE IF i >= Len(m.h[p]) THEN [m EXCEPT !.f = "oob"]
    ELSE [m EXCEPT !.h[p][i + 1] = v]

\* which fault, if any, reading ptr[i] raises
LoadFault(m, p, i) ==
    IF m.f # "none" THEN m.f
    ELSE IF p = NULL THEN "null"
    ELSE IF ~Allocated(m.h, p) THEN "dangling"
    ELSE IF i >= Len(m.h[p]) THEN "oob"
    ELSE "none"

\* the value of ptr[i] (of a valid access)
Load(m, p, i) == m.h[p][i + 1]

\* ptr[i] = std::move(x) for a temporary or a parameter x holding v: Type's
\* move assignment
Assign(m, p, i, v) ==
    LET m1 == Store(m, p, i, v)
    IN IF m1.f # "none" THEN m1
       ELSE IF m.left = 0 THEN [m EXCEPT !.f = "throw"]
       ELSE IF m.left = Never THEN m1
       ELSE [m1 EXCEPT !.left = @ - 1]

\* *dst = std::move(*src) through a move_iterator, for one element
MoveElem(m, sp, si, dp, di) ==
    IF LoadFault(m, sp, si) # "none" THEN [m EXCEPT !.f = LoadFault(m, sp, si)]
    ELSE LET m1 == Assign(m, dp, di, Load(m, sp, si))
         IN IF m1.f # "none" \/ m.left = Never THEN m1
            ELSE Store(m1, sp, si, Moved)

\* the exception of Type was caught by the caller: the state it finds
Caught(m) == [m EXCEPT !.f = "none"]

\* std::copy(sp + lo, sp + hi, dp + dlo): first to last
RECURSIVE StdCopy(_, _, _, _, _, _)
StdCopy(m, sp, lo, hi, dp, dlo) ==
    IF lo >= hi THEN m
    ELSE StdCopy(MoveElem(m, sp, lo, dp, dlo), sp, lo + 1, hi, dp, dlo + 1)

\* mutant of StdCopyBackward: the elements are moved first to last
StdCopyBackwardFirstToLast(m, sp, lo, hi, dp, dhi) ==
    StdCopy(m, sp, lo, hi, dp, dhi - (hi - lo))

\* std::copy_backward(sp + lo, sp + hi, dp + dhi): last to first
RECURSIVE StdCopyBackward(_, _, _, _, _, _)
StdCopyBackward(m, sp, lo, hi, dp, dhi) ==
    IF lo >= hi THEN m
    ELSE StdCopyBackward(MoveElem(m, sp, hi - 1, dp, dhi - 1), sp, lo, hi - 1, dp, dhi - 1)

\* std::fill(p + lo, p + hi, value)
RECURSIVE StdFill(_, _, _, _, _)
StdFill(m, p, lo, hi, value) ==
    IF lo >= hi THEN m
    ELSE StdFill(Store(m, p, lo, value), p, lo + 1, hi, value)

\* -------------------------------------------------------------- ArrayPtr
\* explicit ArrayPtr(size_t size): new Type[size] when size > 0, else nullptr.
\* avail is the number of slots operator new[] can still provide at this
\* call; asked for more, it throws std::bad_alloc.
ArrayPtrNew(m, size, avail) ==
    IF size = 0 THEN [m |-> m, p |-> NULL, thrown |-> FALSE]
    ELSE IF size > avail \/ FreePtrs(m.h) = {}
         THEN [m |-> m, p |-> NULL, thrown |-> TRUE]
    ELSE LET p == MinOf(FreePtrs(m.h))
         IN [m |-> [m EXCEPT !.h[p] = [i \in 1 .. size |-> Indet]],
             p |-> p, thrown |-> FALSE]

\* ~ArrayPtr(): delete[] raw_ptr_
ArrayPtrDelete(m, p) ==
    IF m.f # "none" \/ p = NULL THEN m
    ELSE IF ~Allocated(m.h, p) THEN [m EXCEPT !.f = "dangling"]
    ELSE [m EXCEPT !.h[p] = << >>]

\* ArrayPtr(ArrayPtr&& other): <<this->raw_ptr_, other.raw_ptr_>> afterwards
ArrayPtrMoveCtor(other) == <<other, NULL>>

\* mutant of ArrayPtrMoveAssign: other keeps its pointer
ArrayPtrMoveAssignCopies(this, other, same) == <<other, other>>

\* operator=(ArrayPtr&& other): <<this->raw_ptr_, other.raw_ptr_>> afterwards;
\* same says this == &other.  The pointer held before is not deleted.
ArrayPtrMoveAssign(this, other, same) ==
    IF ~same THEN <<other, NULL>> ELSE <<this, other>>

\* Release(): <<raw_ptr_ afterwards, the pointer returned>>
ArrayPtrRelease(this) == <<NULL, this>>

\* ArrayPtr::swap(other) is std::swap(*this, other):
\*   ArrayPtr tmp(std::move(a)); a = std::move(b); b = std::move(tmp); ~tmp
\* gives <<this->raw_ptr_, other.raw_ptr_, tmp.raw_ptr_ at its destruction>>
ArrayPtrSwap(this, other, same) ==
    IF same
    THEN LET t1 == ArrayPtrMoveCtor(this)             \* <<tmp, a>>
             a2 == ArrayPtrMoveAssign(t1[2], t1[2], TRUE)  \* a = move(a)
             b3 == ArrayPtrMoveAssign(a2[1], t1[1], FALSE) \* a = move(tmp)
         IN <<b3[1], b3[1], b3[2]>>
    ELSE LET t1 == ArrayPtrMoveCtor(this)             \* <<tmp, a>>
             a2 == ArrayPtrMoveAssign(t1[2], other, FALSE) \* <<a, b>>
             b3 == ArrayPtrMoveAssign(a2[2], t1[1], FALSE) \* <<b, tmp>>
         IN <<a2[1], b3[1], b3[2]>>

\* ---------------------------------------------------------- SimpleVector
\* the fields data_, size_, capacity_
Vec(d, s, c) == [data |-> d, size |-> s, capacity |-> c]

\* SimpleVector() noexcept = default
EmptyVec == Vec(NULL, 0, 0)

\* the outcome of a member function: machine state, the fields of *this and
\* of the other operand, the exception thrown ("none" when it returns), the
\* element returned (ret) and the iterator returned (it)
NoIter == <<NULL, 0>>

Res(m, s, ex, ret, it) == [m |-> m, self |-> s, other |-> s, ex |-> ex, ret |-> ret, it |-> it]

Res2(m, s, o, ex) == [m |-> m, self |-> s, other |-> o, ex |-> ex, ret |-> 0, it |-> NoIter]

Ok(m, s) == Res(m, s, "none", 0, NoIter)

Throw(m, s, ex) == Res(m, s, ex, 0, NoIter)

\* an iterator (Type*): the allocation and the offset in it
Iter(p, off) == <<p, off>>

\* begin()
Begin(s) == Iter(s.data, 0)

\* end()
End(s) == Iter(s.data, s.size)

\* FillDefault(begin, end): *it = std::move(Type()) for each slot
RECURSIVE FillDefault(_, _, _, _)
FillDefault(m, p, lo, hi) ==
    IF lo >= hi THEN m
    ELSE FillDefault(Assign(m, p, lo, Default), p, lo + 1, hi)

\* SimpleVector::swap(other): <<fields of *this, fields of other>> afterwards
VecSwap(s, o, same) ==
    LET sw == ArrayPtrSwap(s.data, o.data, same)
    IN <<Vec(sw[1], o.size, o.capacity), Vec(sw[2], s.size, s.capacity)>>

\* mutant of Recreate: capacity_ = new_capacity is missing
RecreateKeepsCapacity(m, s, new_capacity, pos, item, avail) ==
    LET nd == ArrayPtrNew(m, new_capacity, avail)
    IN IF nd.thrown THEN Throw(m, s, "bad_alloc")
       ELSE LET m1 == StdCopy(nd.m, s.data, 0, pos, nd.p, 0)
                m2 == Store(m1, nd.p, pos, item)
                m3 == StdCopy(m2, s.data, pos, s.size, nd.p, pos + 1)
                sw == ArrayPtrSwap(nd.p, s.data, FALSE)
                m4 == ArrayPtrDelete(ArrayPtrDelete(m3, sw[3]), sw[1])
            IN Ok(m4, Vec(sw[2], s.size + 1, s.capacity))

\* mutant of Recreate: ++size_ comes first, before the new buffer is allocated
RecreateCountsFirst(m, s, new_capacity, pos, item, avail) ==
    LET nd == ArrayPtrNew(m, new_capacity, avail)
    IN IF nd.thrown THEN Throw(m, Vec(s.data, s.size + 1, s.capacity), "bad_alloc")
       ELSE LET m1 == StdCopy(nd.m, s.data, 0, pos, nd.p, 0)
                m2 == Store(m1, nd.p, pos, item)
                m3 == StdCopy(m2, s.data, pos, s.size, nd.p, pos + 1)
                sw == ArrayPtrSwap(nd.p, s.data, FALSE)
                m4 == ArrayPtrDelete(ArrayPtrDelete(m3, sw[3]), sw[1])
            IN Ok(m4, Vec(sw[2], s.size + 1, new_capacity))

\* Recreate(new_capacity, pos, item).  An exception of Type's move
\* assignment unwinds through ~new_data, which deletes the new buffer.
Recreate(m, s, new_capacity, pos, item, avail) ==
    LET nd == ArrayPtrNew(m, new_capacity, avail)
    IN IF nd.thrown THEN Throw(m, s, "bad_alloc")
       ELSE LET m1 == StdCopy(nd.m, s.data, 0, pos, nd.p, 0)
                m2 == Assign(m1, nd.p, pos, item)
                m3 == StdCopy(m2, s.data, pos, s.size, nd.p, pos + 1)
                sw == ArrayPtrSwap(nd.p, s.data, FALSE)
                m4 == ArrayPtrDelete(ArrayPtrDelete(m3, sw[3]), sw[1])
            IN IF m3.f = "throw"
               THEN Throw(ArrayPtrDelete(Caught(m3), nd.p), s, "move_throw")
               ELSE Ok(m4, Vec(sw[2], s.size + 1, new_capacity))

\* mutant of GrowCapacity: one more slot instead of twice as many
GrowCapacityByOne(capacity) == capacity + 1

\* the capacity PushBack and InsertInt ask Recreate for
GrowCapacity(capacity) == IF capacity = 0 THEN 1 ELSE capacity * 2

\* PushBack(Type&& item); PushBack(const Type&) forwards a copy to it.  In
\* data_[size_++] = std::move(item) the operand size_++ is evaluated before
\* Type's move assignment is called.
PushBackOp(m, s, item, avail) ==
    IF s.size = s.capacity
    THEN Recreate(m, s, GrowCapacity(s.capacity), s.size, item, avail)
    ELSE LET m1 == Assign(m, s.data, s.size, item)
         IN IF m1.f = "throw"
            THEN Throw(Caught(m1), Vec(s.data, s.size + 1, s.capacity), "move_throw")
            ELSE Ok(m1, Vec(s.data, s.size + 1, s.capacity))

\* mutant of InsertInt: in place, the elements are not shifted to the right
InsertIntNoShift(m, s, shift, value, avail) ==
    IF s.size = s.capacity
    THEN LET r == Recreate(m, s, GrowCapacity(s.capacity), shift, value, avail)
         IN IF r.ex # "none" THEN r
            ELSE Res(r.m, r.self, "none", 0, Iter(r.self.data, shift))
    ELSE LET m2 == Assign(m, s.data, shift, value)
         IN Res(m2, Vec(s.data, s.size + 1, s.capacity), "none", 0, Iter(s.data, shift))

\* InsertInt(pos, value) with pos == begin() + shift; both Insert overloads
InsertInt(m, s, shift, value, avail) ==
    IF s.size = s.capacity
    THEN LET r == Recreate(m, s, GrowCapacity(s.capacity), shift, value, avail)
         IN IF r.ex # "none" THEN r
            ELSE Res(r.m, r.self, "none", 0, Iter(r.self.data, shift))
    ELSE LET m1 == StdCopyBackward(m, s.data, shift, s.size, s.data, s.size + 1)
             m2 == Assign(m1, s.data, shift, value)
         IN IF m2.f = "throw" THEN Throw(Caught(m2), s, "move_throw")
            ELSE Res(m2, Vec(s.data, s.size + 1, s.capacity), "none", 0, Iter(s.data, shift))

\* mutant of EraseOp: the copy starts at the erased slot, not after it
EraseOpFromShift(m, s, shift) ==
    LET m1 == StdCopy(m, s.data, shift, s.size, s.data, shift)
    IN Res(m1, Vec(s.data, s.size - 1, s.capacity), "none", 0, Iter(s.data, shift))

\* Erase(pos) with pos == begin() + shift
EraseOp(m, s, shift) ==
    LET m1 == StdCopy(m, s.data, shift + 1, s.size, s.data, shift)
    IN IF m1.f = "throw" THEN Throw(Caught(m1), s, "move_throw")
       ELSE Res(m1, Vec(s.data, s.size - 1, s.capacity), "none", 0, Iter(s.data, shift))

\* mutant of PopBackOp: the capacity is decremented with the size
PopBackOpShrinks(m, s) == Ok(m, Vec(s.data, s.size - 1, s.capacity - 1))

\* PopBack()
PopBackOp(m, s) == Ok(m, Vec(s.data, s.size - 1, s.capacity))

\* mutant of ClearOp: the buffer is released as well
ClearOpReleases(m, s) == Ok(ArrayPtrDelete(m, s.data), EmptyVec)

\* Clear()
ClearOp(m, s) == Ok(m, Vec(s.data, 0, s.capacity))

\* mutant of RangeCheck: index == size passes
RangeCheckPastEnd(s, index) == index > s.size

\* RangeCheck(index): TRUE when it throws std::out_of_range
RangeCheck(s, index) == index >= s.size

\* operator[](index): the element data_[index]; the caller uses the reference
\* it returns, so the access happens here
Subscript(m, s, index) ==
    IF LoadFault(m, s.data, index) # "none"
    THEN Ok([m EXCEPT !.f = LoadFault(m, s.data, index)], s)
    ELSE Res(m, s, "none", Load(m, s.data, index), NoIter)

\* At(index)
AtOp(m, s, index) ==
    IF RangeCheck(s, index) THEN Throw(m, s, "out_of_range")
    ELSE Subscript(m, s, index)

\* mutant of ResizeOp: growing within the capacity does not call FillDefault
ResizeOpNoFill(m, s, new_size, avail) ==
    IF new_size <= s.capacity
    THEN Ok(m, Vec(s.data, new_size, s.capacity))
    ELSE LET nd == ArrayPtrNew(m, new_size, avail)
         IN IF nd.thrown THEN Throw(m, s, "bad_alloc")
            ELSE LET m1 == StdCopy(nd.m, s.data, 0, s.size, nd.p, 0)
                     m2 == FillDefault(m1, nd.p, s.size, new_size)
                     sw == ArrayPtrSwap(nd.p, s.data, FALSE)
                     m3 == ArrayPtrDelete(ArrayPtrDelete(m2, sw[3]), sw[1])
                 IN Ok(m3, Vec(sw[2], new_size, new_size))

\* Resize(new_size)
ResizeOp(m, s, new_size, avail) ==
    IF new_size <= s.capacity
    THEN LET m1 == IF new_size > s.size
                   THEN FillDefault(m, s.data, s.size, new_size)
                   ELSE m
         IN IF m1.f = "throw" THEN Throw(Caught(m1), s, "move_throw")
            ELSE Ok(m1, Vec(s.data, new_size, s.capacity))
    ELSE LET nd == ArrayPtrNew(m, new_size, avail)
         IN IF nd.thrown THEN Throw(m, s, "bad_alloc")
            ELSE LET m1 == StdCopy(nd.m, s.data, 0, s.size, nd.p, 0)
                     m2 == FillDefault(m1, nd.p, s.size, new_size)
                     sw == ArrayPtrSwap(nd.p, s.data, FALSE)
                     m3 == ArrayPtrDelete(ArrayPtrDelete(m2, sw[3]), sw[1])
                 IN IF m2.f = "throw"
                    THEN Throw(ArrayPtrDelete(Caught(m2), nd.p), s, "move_throw")
                    ELSE Ok(m3, Vec(sw[2], new_size, new_size))

Min(x, y) == IF x <= y THEN x ELSE y

\* mutant of ReserveOp: the elements are not moved into the new buffer
ReserveOpNoMove(m, s, new_capacity, avail) ==
    IF new_capacity <= s.capacity THEN Ok(m, s)
    ELSE LET nd == ArrayPtrNew(m, new_capacity, avail)
         IN IF nd.thrown THEN Throw(m, s, "bad_alloc")
            ELSE LET sw == ArrayPtrSwap(nd.p, s.data, FALSE)
                     m2 == ArrayPtrDelete(ArrayPtrDelete(nd.m, sw[3]), sw[1])
                 IN Ok(m2, Vec(sw[2], s.size, new_capacity))

\* Reserve(new_capacity)
ReserveOp(m, s, new_capacity, avail) ==
    IF new_capacity <= s.capacity THEN Ok(m, s)
    ELSE LET nd == ArrayPtrNew(m, new_capacity, avail)
         IN IF nd.thrown THEN Throw(m, s, "bad_alloc")
            ELSE LET m1 == StdCopy(nd.m, s.data, 0, Min(new_capacity, s.size), nd.p, 0)
                     sw == ArrayPtrSwap(nd.p, s.data, FALSE)
                     m2 == ArrayPtrDelete(ArrayPtrDelete(m1, sw[3]), sw[1])
                 IN IF m1.f = "throw"
                    THEN Throw(ArrayPtrDelete(Caught(m1), nd.p), s, "move_throw")
                    ELSE Ok(m2, Vec(sw[2], s.size, new_capacity))

\* std::copy(sp + lo, sp + hi, dp + dlo) from const elements: the move
\* iterators yield const Type&&, so Type's copy assignment is called
RECURSIVE StdCopyConst(_, _, _, _, _, _)
StdCopyConst(m, sp, lo, hi, dp, dlo) ==
    IF lo >= hi THEN m
    ELSE IF LoadFault(m, sp, lo) # "none"
         THEN [m EXCEPT !.f = LoadFault(m, sp, lo)]
    ELSE StdCopyConst(Store(m, dp, dlo, Load(m, sp, lo)), sp, lo + 1, hi, dp, dlo + 1)

\* std::copy from an initializer_list into p
RECURSIVE StoreList(_, _, _, _)
StoreList(m, p, items, i) ==
    IF i >= Len(items) THEN m
    ELSE StoreList(Store(m, p, i, items[i + 1]), p, items, i + 1)

\* Construct(other, size) on an object whose members hold their default
\* initialisers; other is a SimpleVector (vector = TRUE) or the items of an
\* initializer_list.  The element type of other is const, so the move
\* iterators copy.
Construct(m, s, vector, other, items, size, avail) ==
    LET nd == ArrayPtrNew(m, size, avail)
    IN IF nd.thrown THEN Throw(m, s, "bad_alloc")
       ELSE LET m1 == IF vector
                      THEN StdCopyConst(nd.m, other.data, 0, other.size, nd.p, 0)
                      ELSE StoreList(nd.m, nd.p, items, 0)
                sw == ArrayPtrSwap(nd.p, s.data, FALSE)
                m2 == ArrayPtrDelete(ArrayPtrDelete(m1, sw[3]), sw[1])
            IN Ok(m2, Vec(sw[2], size, size))

\* SimpleVector(size_t size, const Type& value)
CtorSizeValue(m, size, value, avail) ==
    LET nd == ArrayPtrNew(m, size, avail)
    IN IF nd.thrown THEN Throw(m, EmptyVec, "bad_alloc")
       ELSE LET m1 == StdFill(nd.m, nd.p, 0, size, value)
                sw == ArrayPtrSwap(nd.p, EmptyVec.data, FALSE)
                m2 == ArrayPtrDelete(ArrayPtrDelete(m1, sw[3]), sw[1])
            IN Ok(m2, Vec(sw[2], size, size))

\* explicit SimpleVector(size_t size)
CtorSize(m, size, avail) == CtorSizeValue(m, size, Default, avail)

\* SimpleVector(std::initializer_list<Type> init)
CtorInitList(m, init, avail) ==
    Construct(m, EmptyVec, FALSE, EmptyVec, init, Len(init), avail)

\* explicit SimpleVector(ReserveProxyObj proxy)
CtorReserve(m, size, avail) == ReserveOp(m, EmptyVec, size, avail)

\* mutant of CtorCopy: the new array points to the buffer of other
CtorCopyShallow(m, other, avail) == Ok(m, Vec(other.data, other.size, other.size))

\* mutant of CtorCopy: Construct is handed the capacity of other
CtorCopyKeepsCapacity(m, other, avail) ==
    Construct(m, EmptyVec, TRUE, other, << >>, other.capacity, avail)

\* SimpleVector(const SimpleVector& other)
CtorCopy(m, other, avail) ==
    Construct(m, EmptyVec, TRUE, other, << >>, other.size, avail)

\* mutant of CtorMove: the fields are copied and other keeps them
CtorMoveKeepsSource(m, other) == Res2(m, other, other, "none")

\* SimpleVector(SimpleVector&& other)
CtorMove(m, other) ==
    LET sw == VecSwap(EmptyVec, other, FALSE)
    IN Res2(m, sw[1], sw[2], "none")

\* ~SimpleVector(): destroys data_; no fields are left behind
Dtor(m, s) == Ok(ArrayPtrDelete(m, s.data), EmptyVec)

\* operator=(const SimpleVector& rhs): SimpleVector tmp(rhs); swap(tmp); ~tmp
CopyAssignOp(m, s, rhs, same, avail) ==
    LET tmp == CtorCopy(m, rhs, avail)
    IN IF tmp.ex # "none" THEN Res2(m, s, rhs, tmp.ex)
       ELSE LET sw == VecSwap(s, tmp.self, FALSE)
                m1 == Dtor(tmp.m, sw[2]).m
            IN Res2(m1, sw[1], IF same THEN sw[1] ELSE rhs, "none")

\* operator=(SimpleVector&& rhs) = default: memberwise move assignment
MoveAssignOp(m, s, rhs, same) ==
    LET d == ArrayPtrMoveAssign(s.data, rhs.data, same)
    IN Res2(m, Vec(d[1], rhs.size, rhs.capacity),
               Vec(d[2], rhs.size, rhs.capacity), "none")

\* mutant of SwapOp: size_ and capacity_ are not exchanged
SwapOpBuffersOnly(m, s, o, same) ==
    LET sw == ArrayPtrSwap(s.data, o.data, same)
    IN Res2(m, Vec(sw[1], s.size, s.capacity), Vec(sw[2], o.size, o.capacity), "none")

\* swap(other)
SwapOp(m, s, o, same) ==
    LET sw == VecSwap(s, o, same)
    IN Res2(m, sw[1], sw[2], "none")

\* std::equal(lp + lo, lp + hi, rp + lo): v is its result, f the fault of an
\* access it makes
RECURSIVE StdEqual(_, _, _, _, _)
StdEqual(m, lp, lo, hi, rp) ==
    IF lo >= hi THEN [f |-> "none", v |-> TRUE]
    ELSE IF LoadFault(m, lp, lo) # "none" THEN [f |-> LoadFault(m, lp, lo), v |-> FALSE]
    ELSE IF LoadFault(m, rp, lo) # "none" THEN [f |-> LoadFault(m, rp, lo), v |-> FALSE]
    ELSE IF Load(m, lp, lo) # Load(m, rp, lo) THEN [f |-> "none", v |-> FALSE]
    ELSE StdEqual(m, lp, lo + 1, hi, rp)

\* mutant of OperatorEq: the sizes are not compared
OperatorEqNoSize(m, lhs, rhs) == StdEqual(m, lhs.data, 0, lhs.size, rhs.data)

\* operator==(lhs, rhs)
OperatorEq(m, lhs, rhs) ==
    IF lhs.size # rhs.size THEN [f |-> "none", v |-> FALSE]
    ELSE StdEqual(m, lhs.data, 0, lhs.size, rhs.data)

\* the negation of a comparison's result
Not(c) == [c EXCEPT !.v = ~@]

\* operator!=(lhs, rhs)
OperatorNe(m, lhs, rhs) == Not(OperatorEq(m, lhs, rhs))

\* std::lexicographical_compare(lp + lo, lp + lhi, rp + lo, rp + rhi): both
\* iterators advance together; v is its result, f the fault of an access
RECURSIVE StdLexCompare(_, _, _, _, _, _)
StdLexCompare(m, lp, lo, lhi, rp, rhi) ==
    IF lo >= lhi \/ lo >= rhi THEN [f |-> "none", v |-> lo >= lhi /\ lo < rhi]
    ELSE IF LoadFault(m, lp, lo) # "none" THEN [f |-> LoadFault(m, lp, lo), v |-> FALSE]
    ELSE IF LoadFault(m, rp, lo) # "none" THEN [f |-> LoadFault(m, rp, lo), v |-> FALSE]
    ELSE IF Load(m, lp, lo) < Load(m, rp, lo) THEN [f |-> "none", v |-> TRUE]
    ELSE IF Load(m, rp, lo) < Load(m, lp, lo) THEN [f |-> "none", v |-> FALSE]
    ELSE StdLexCompare(m, lp, lo + 1, lhi, rp, rhi)

\* operator<(lhs, rhs)
OperatorLt(m, lhs, rhs) == StdLexCompare(m, lhs.data, 0, lhs.size, rhs.data, rhs.size)

\* operator<=(lhs, rhs)
OperatorLe(m, lhs, rhs) == Not(OperatorLt(m, rhs, lhs))

\* operator>(lhs, rhs)
OperatorGt(m, lhs, rhs) == OperatorLt(m, rhs, lhs)

\* operator>=(lhs, rhs)
OperatorGe(m, lhs, rhs) == Not(OperatorLt(m, lhs, rhs))

\* ------------------------------------------------------------- actions
Running == fault = "none"

\* the machine state a call starts in (calls are made while Running)
M == Mach(heap, "none")

\* whether none of the arrays vs points to the allocation p of h
Unowned(h, vs, p) == Allocated(h, p) /\ \A x \in Names : vs[x].data # p

\* h without the allocations that no array points to
Owned(h, vs) == [p \in Ptrs |-> IF Unowned(h, vs, p) THEN << >> ELSE h[p]]

\* a call on vec[a] (and vec[b]) that ended with outcome r.  When the call
\* is over its local ArrayPtr objects are gone, so an allocation that no
\* array points to can never be reached or deleted again: it stays
\* allocated, and is counted in lost.  A crash leaves no state behind; the
\* model keeps the last one.
Commit(a, b, r) ==
    /\ UNCHANGED bufs
    /\ IF r.m.f # "none"
       THEN /\ fault' = r.m.f
            /\ UNCHANGED <<heap, lost, vec>>
       ELSE \E vs \in {[vec EXCEPT ![b] = r.other, ![a] = r.self]} :
            \E h \in {Owned(r.m.h, vs)} :
               /\ vec' = vs
               /\ heap' = h
               /\ lost' = lost + Used(r.m.h) - Used(h)
               /\ UNCHANGED fault

\* a call with outcome r, evaluated once
Do(a, b, r) == \E x \in {r} : Commit(a, b, x)

PushBack(a, v, avail) ==
    /\ Running /\ live[a]
    /\ Do(a, a, PushBackOp(M, vec[a], v, avail))
    /\ UNCHANGED live

Insert(a, k, v, avail) ==
    /\ Running /\ live[a] /\ k <= vec[a].size
    /\ Do(a, a, InsertInt(M, vec[a], k, v, avail))
    /\ UNCHANGED live

\* precondition: pos in [begin, end)
Erase(a, k) ==
    /\ Running /\ live[a] /\ k < vec[a].size
    /\ Do(a, a, EraseOp(M, vec[a], k))
    /\ UNCHANGED live

\* precondition: the array is not empty
PopBack(a) ==
    /\ Running /\ live[a] /\ vec[a].size > 0
    /\ Do(a, a, PopBackOp(M, vec[a]))
    /\ UNCHANGED live

Clear(a) ==
    /\ Running /\ live[a]
    /\ Do(a, a, ClearOp(M, vec[a]))
    /\ UNCHANGED live

Resize(a, n, avail) ==
    /\ Running /\ live[a]
    /\ Do(a, a, ResizeOp(M, vec[a], n, avail))
    /\ UNCHANGED live

Reserve(a, n, avail) ==
    /\ Running /\ live[a]
    /\ Do(a, a, ReserveOp(M, vec[a], n, avail))
    /\ UNCHANGED live

At(a, i) ==
    /\ Running /\ live[a]
    /\ Do(a, a, AtOp(M, vec[a], i))
    /\ UNCHANGED live

\* precondition: index < size
Index(a, i) ==
    /\ Running /\ live[a] /\ i < vec[a].size
    /\ Do(a, a, Subscript(M, vec[a], i))
    /\ UNCHANGED live

\* a constructor call on the storage of a: the object lives unless it threw
Construction(a, b, r) ==
    /\ Running /\ ~live[a]
    /\ \E x \in {r} :
          /\ Commit(a, b, x)
          /\ live' = [live EXCEPT ![a] = (x.m.f = "none" /\ x.ex = "none")]

NewDefault(a) ==
    Construction(a, a, Ok(M, EmptyVec))

NewSize(a, n, avail) ==
    Construction(a, a, CtorSize(M, n, avail))

NewSizeValue(a, n, v, avail) ==
    Construction(a, a, CtorSizeValue(M, n, v, avail))

NewInitList(a, init, avail) ==
    Construction(a, a, CtorInitList(M, init, avail))

NewReserve(a, n, avail) ==
    Construction(a, a, CtorReserve(M, n, avail))

NewCopy(a, b, avail) ==
    /\ live[b]
    /\ Construction(a, b,
                    [CtorCopy(M, vec[b], avail) EXCEPT !.other = vec[b]])

NewMove(a, b) ==
    /\ live[b]
    /\ Construction(a, b, CtorMove(M, vec[b]))

Destroy(a) ==
    /\ Running /\ live[a]
    /\ Do(a, a, Dtor(M, vec[a]))
    /\ live' = [live EXCEPT ![a] = FALSE]

CopyAssign(a, b, avail) ==
    /\ Running /\ live[a] /\ live[b]
    /\ Do(a, b, CopyAssignOp(M, vec[a], vec[b], a = b, avail))
    /\ UNCHANGED live

MoveAssign(a, b) ==
    /\ Running /\ live[a] /\ live[b]
    /\ Do(a, b, MoveAssignOp(M, vec[a], vec[b], a = b))
    /\ UNCHANGED live

Swap(a, b) ==
    /\ Running /\ live[a] /\ live[b]
    /\ Do(a, b, SwapOp(M, vec[a], vec[b], a = b))
    /\ UNCHANGED live

\* a == b (and a != b): it changes nothing unless an access faults
Equal(a, b) ==
    /\ Running /\ live[a] /\ live[b]
    /\ fault' = OperatorEq(M, vec[a], vec[b]).f
    /\ UNCHANGED <<heap, lost, vec, live, bufs>>

\* a < b (and b > a, b <= a, a >= b)
Less(a, b) ==
    /\ Running /\ live[a] /\ live[b]
    /\ fault' = OperatorLt(M, vec[a], vec[b]).f
    /\ UNCHANGED <<heap, lost, vec, live, bufs>>

\* the literal element lists handed to the initializer_list constructor
MaxInit == 2

InitLists == UNION {[1 .. n -> Values] : n \in 0 .. MaxInit}

Args == 0 .. MaxArg

Init ==
    /\ heap = [p \in Ptrs |-> << >>]
    /\ vec = [a \in Names |-> EmptyVec]
    /\ live = [a \in Names |-> FALSE]
    /\ fault = "none"
    /\ lost = 0
    /\ buf = [x \in Bufs |-> NULL]
    /\ blive = [x \in Bufs |-> FALSE]
    /\ held = {}

\* what operator new[] can provide: nothing, or what is left of lim slots
Avail(lim) == {0, lim - Used(heap) - lost}

\* the calls on one array
Step1(a, lim) ==
    \/ NewDefault(a)
    \/ \E n \in Args, avail \in Avail(lim) : NewSize(a, n, avail)
    \/ \E n \in Args, v \in Values, avail \in Avail(lim) : NewSizeValue(a, n, v, avail)
    \/ \E init \in InitLists, avail \in Avail(lim) : NewInitList(a, init, avail)
    \/ \E n \in Args, avail \in Avail(lim) : NewReserve(a, n, avail)
    \/ Destroy(a)
    \/ \E v \in Values, avail \in Avail(lim) : PushBack(a, v, avail)
    \/ \E k \in Args, v \in Values, avail \in Avail(lim) : Insert(a, k, v, avail)
    \/ \E k \in Args : Erase(a, k)
    \/ PopBack(a)
    \/ Clear(a)
    \/ \E n \in Args, avail \in Avail(lim) : Resize(a, n, avail)
    \/ \E n \in Args, avail \in Avail(lim) : Reserve(a, n, avail)
    \/ \E i \in Args : At(a, i)
    \/ \E i \in Args : Index(a, i)

\* the calls on two arrays (a = b: on an array and itself)
Step2(a, b, lim) ==
    \/ \E avail \in Avail(lim) : NewCopy(a, b, avail)
    \/ NewMove(a, b)
    \/ \E avail \in Avail(lim) : CopyAssign(a, b, avail)
    \/ MoveAssign(a, b)
    \/ Swap(a, b)
    \/ Equal(a, b)
    \/ Less(a, b)

\* two arrays in a heap of PairHeap slots
Next ==
    \/ \E a \in Names : Step1(a, PairHeap)
    \/ \E a, b \in Names : Step2(a, b, PairHeap)

Spec == Init /\ [][Next]_vars

\* one array in a heap of HeapSize slots
NextOne == Step1("A", HeapSize)

SpecOne == Init /\ [][NextOne]_vars

\* most move assignments of a class Type that succeed before one throws
MaxLeft == 2

\* more move assignments than one call makes: none throws
Plenty == 2 * HeapSize + 2

Lefts == (0 .. MaxLeft) \cup {Plenty}

\* the machine state a call starts in when Type is a class whose move
\* assignment throws after left assignments
MT(left) == [M EXCEPT !.left = left]

PushBackT(a, v, avail, left) ==
    /\ Running /\ live[a]
    /\ Do(a, a, PushBackOp(MT(left), vec[a], v, avail))
    /\ UNCHANGED live

InsertT(a, k, v, avail, left) ==
    /\ Running /\ live[a] /\ k <= vec[a].size
    /\ Do(a, a, InsertInt(MT(left), vec[a], k, v, avail))
    /\ UNCHANGED live

EraseT(a, k, left) ==
    /\ Running /\ live[a] /\ k < vec[a].size
    /\ Do(a, a, EraseOp(MT(left), vec[a], k))
    /\ UNCHANGED live

ResizeT(a, n, avail, left) ==
    /\ Running /\ live[a]
    /\ Do(a, a, ResizeOp(MT(left), vec[a], n, avail))
    /\ UNCHANGED live

ReserveT(a, n, avail, left) ==
    /\ Running /\ live[a]
    /\ Do(a, a, ReserveOp(MT(left), vec[a], n, avail))
    /\ UNCHANGED live

\* the calls on one array of a class Type
StepT(a, lim) ==
    \/ NewDefault(a)
    \/ \E init \in InitLists, avail \in Avail(lim) : NewInitList(a, init, avail)
    \/ \E n \in Args, avail \in Avail(lim) : NewReserve(a, n, avail)
    \/ Destroy(a)
    \/ PopBack(a)
    \/ Clear(a)
    \/ \E v \in Values, avail \in Avail(lim), left \in Lefts : PushBackT(a, v, avail, left)
    \/ \E k \in Args, v \in Values, avail \in Avail(lim), left \in Lefts :
          InsertT(a, k, v, avail, left)
    \/ \E k \in Args, left \in Lefts : EraseT(a, k, left)
    \/ \E n \in Args, avail \in Avail(lim), left \in Lefts : ResizeT(a, n, avail, left)
    \/ \E n \in Args, avail \in Avail(lim), left \in Lefts : ReserveT(a, n, avail, left)

\* one array of a class Type in a heap of HeapSize slots
NextClass == StepT("A", HeapSize)

SpecClass == Init /\ [][NextClass]_vars

\* h without the allocations that neither an ArrayPtr of bs nor the caller
\* (hs) points to
Reachable(h, bs, hs) ==
    [p \in Ptrs |-> IF p \in hs \/ \E x \in Bufs : bs[x] = p THEN h[p] ELSE << >>]

\* a call on ArrayPtr objects that left them as bs (constructed: bl), the
\* caller with the raw pointers hs and the machine as m.  An allocation that
\* nothing points to any more stays allocated and is counted in lost.
BufCommit(bs, bl, hs, m) ==
    /\ UNCHANGED vecs
    /\ IF m.f # "none"
       THEN /\ fault' = m.f
            /\ UNCHANGED <<heap, lost, bufs>>
       ELSE \E h \in {Reachable(m.h, bs, hs)} :
               /\ buf' = bs /\ blive' = bl /\ held' = hs
               /\ heap' = h
               /\ lost' = lost + Used(m.h) - Used(h)
               /\ UNCHANGED fault

\* ArrayPtr<Type> x;
BufDefault(x) ==
    /\ Running /\ ~blive[x]
    /\ BufCommit([buf EXCEPT ![x] = NULL], [blive EXCEPT ![x] = TRUE], held, M)

\* ArrayPtr<Type> x(n); nothing is constructed when new[] throws
BufNew(x, n, avail) ==
    /\ Running /\ ~blive[x]
    /\ \E nd \in {ArrayPtrNew(M, n, avail)} :
          BufCommit([buf EXCEPT ![x] = nd.p], [blive EXCEPT ![x] = ~nd.thrown], held, nd.m)

\* ArrayPtr<Type> x(std::move(y));
BufMoveCtor(x, y) ==
    /\ Running /\ ~blive[x] /\ blive[y]
    /\ \E r \in {ArrayPtrMoveCtor(buf[y])} :
          BufCommit([buf EXCEPT ![x] = r[1], ![y] = r[2]], [blive EXCEPT ![x] = TRUE], held, M)

\* x = std::move(y);
BufMoveAssign(x, y) ==
    /\ Running /\ blive[x] /\ blive[y]
    /\ \E r \in {ArrayPtrMoveAssign(buf[x], buf[y], x = y)} :
          BufCommit([buf EXCEPT ![y] = r[2], ![x] = r[1]], blive, held, M)

\* x.swap(y); the temporary of std::swap is destroyed at the end
BufSwap(x, y) ==
    /\ Running /\ blive[x] /\ blive[y]
    /\ \E r \in {ArrayPtrSwap(buf[x], buf[y], x = y)} :
          BufCommit([buf EXCEPT ![y] = r[2], ![x] = r[1]], blive, held,
                    ArrayPtrDelete(M, r[3]))

\* Type* raw = x.Release();
BufRelease(x) ==
    /\ Running /\ blive[x]
    /\ \E r \in {ArrayPtrRelease(buf[x])} :
          BufCommit([buf EXCEPT ![x] = r[1]], blive, held \cup ({r[2]} \ {NULL}), M)

\* the ArrayPtr x is destroyed
BufDtor(x) ==
    /\ Running /\ blive[x]
    /\ BufCommit([buf EXCEPT ![x] = NULL], [blive EXCEPT ![x] = FALSE], held,
                 ArrayPtrDelete(M, buf[x]))

\* the caller frees a pointer it got from Release: delete[] raw
DeleteReleased(p) ==
    /\ Running /\ p \in held
    /\ BufCommit(buf, blive, held \ {p}, ArrayPtrDelete(M, p))

\* the calls on ArrayPtr objects in a heap of HeapSize slots
NextPtr ==
    \/ \E x \in Bufs : BufDefault(x)
    \/ \E x \in Bufs, n \in Args, avail \in Avail(HeapSize) : BufNew(x, n, avail)
    \/ \E x, y \in Bufs : BufMoveCtor(x, y)
    \/ \E x, y \in Bufs : BufMoveAssign(x, y)
    \/ \E x, y \in Bufs : BufSwap(x, y)
    \/ \E x \in Bufs : BufRelease(x)
    \/ \E x \in Bufs : BufDtor(x)
    \/ \E p \in Ptrs : DeleteReleased(p)

SpecPtr == Init /\ [][NextPtr]_vars

\* ---------------------------------------------------------------- views
\* the elements [0, size) of an array; a slot of a null buffer cannot be read
Elems(h, s) ==
    [i \in 1 .. s.size |-> IF s.data = NULL THEN Indet ELSE h[s.data][i]]

\* the slots of the allocation an array points to
Buffer(h, s) == IF s.data = NULL THEN << >> ELSE h[s.data]

\* the call returned: it neither threw nor crashed
Returned(r) == r.ex = "none" /\ r.m.f = "none"

Live == {a \in Names : live[a]}

Room == Avail(HeapSize)

Max(x, y) == IF x >= y THEN x ELSE y

EmptyHeap == [p \in Ptrs |-> << >>]

M0 == Mach(EmptyHeap, "none")

\* the structure the code relies on: a buffer holds exactly capacity slots,
\* no two arrays point to one allocation, no array points to a freed one
WellFormed ==
    /\ \A a \in Names : ~live[a] => vec[a] = EmptyVec
    /\ \A a \in Live : vec[a].data # NULL =>
          Allocated(heap, vec[a].data) /\ Len(heap[vec[a].data]) = vec[a].capacity
    /\ \A a, b \in Live : a # b /\ vec[a].data = vec[b].data => vec[a].data = NULL
    /\ fault \in {"none", "null"}

\* ---------------------------------------------------------------- claims

\* C1: in every reachable state every array satisfies size <= capacity.
C1_SizeWithinCapacity ==
    \A a \in Live : vec[a].size <= vec[a].capacity

C1_Witness ==
    /\ live["A"] /\ live["B"]
    /\ vec["A"].size = 2 /\ vec["A"].capacity = 2
    /\ vec["B"].size = 0 /\ vec["B"].capacity = 1

\* C2: in every reachable state, for every array, capacity == 0 holds if and
\* only if the array's buffer owns no allocation.
C2_CapacityZeroIffNoBuffer ==
    \A a \in Live : (vec[a].capacity = 0) <=> (vec[a].data = NULL)

\* C3: for every index i < size At(i) returns the element array[i] returns,
\* and for every index i >= size At(i) throws out_of_range and leaves the
\* array's size, capacity and elements unchanged.
C3_AtChecked ==
    \A a \in Live : \A i \in Args :
        LET r == AtOp(M, vec[a], i)
            u == Subscript(M, vec[a], i)
        IN /\ i < vec[a].size =>
                /\ r.ex = "none" /\ r.m.f = u.m.f
                /\ r.m.f = "none" =>
                      /\ r.ret = u.ret /\ r.ret = heap[vec[a].data][i + 1]
                      /\ r.self = vec[a] /\ r.m.h = heap
           /\ i >= vec[a].size =>
                /\ r.ex = "out_of_range" /\ r.m.f = "none"
                /\ r.self = vec[a] /\ r.m.h = heap

\* an array with a stale value just past its end: At reads the elements and
\* refuses the stale slot
C3_Witness ==
    \E a \in Live :
        /\ vec[a].size = 1 /\ vec[a].capacity = 2
        /\ heap[vec[a].data] = <<1, 1>>
        /\ AtOp(M, vec[a], 0).ret = 1
        /\ AtOp(M, vec[a], 1).ex = "out_of_range"

\* C4: PushBack(v) makes the last element v, increases size by exactly 1,
\* keeps the elements [0, old size), and changes capacity only when
\* size == capacity held, to max(1, 2 * old capacity); three pushes onto an
\* empty array give capacities 1, 2, 4.
C4_PushBack ==
    /\ \A a \in Live : \A v \in Values : \A avail \in Room :
          LET s == vec[a]
              r == PushBackOp(M, s, v, avail)
          IN Returned(r) =>
                /\ Elems(r.m.h, r.self) = Append(Elems(heap, s), v)
                /\ r.self.size = s.size + 1
                /\ s.size < s.capacity =>
                      r.self.capacity = s.capacity /\ r.self.data = s.data
                /\ s.size = s.capacity =>
                      r.self.capacity = Max(1, 2 * s.capacity)
    /\ LET r1 == PushBackOp(M0, EmptyVec, 1, HeapSize)
           r2 == PushBackOp(r1.m, r1.self, 0, HeapSize - 1)
           r3 == PushBackOp(r2.m, r2.self, 1, HeapSize - 2)
       IN /\ <<r1.self.capacity, r2.self.capacity, r3.self.capacity>> = <<1, 2, 4>>
          /\ r3.self.size = 3
          /\ Elems(r3.m.h, r3.self) = <<1, 0, 1>>

\* a full array of capacity 2 whose push returns with capacity 4
C4_Witness ==
    /\ live["A"] /\ vec["A"].size = 2 /\ vec["A"].capacity = 2
    /\ Elems(heap, vec["A"]) = <<1, 0>>
    /\ LET r == PushBackOp(M, vec["A"], 1, HeapSize - 2)
       IN Returned(r) /\ r.self.capacity = 4 /\ Elems(r.m.h, r.self) = <<1, 0, 1>>

\* C5: Insert(begin + k, v) with 0 <= k <= size yields s[0..k) ++ [v] ++
\* s[k..size), increases size by exactly 1 and returns begin + k of the
\* (possibly new) buffer, in place when size < capacity and with the capacity
\* max(1, 2 * capacity) when size == capacity.
C5_Insert ==
    \A a \in Live : \A k \in 0 .. vec[a].size : \A v \in Values : \A avail \in Room :
        LET s == vec[a]
            e == Elems(heap, s)
            r == InsertInt(M, s, k, v, avail)
        IN Returned(r) =>
              /\ Elems(r.m.h, r.self) = SubSeq(e, 1, k) \o <<v>> \o SubSeq(e, k + 1, s.size)
              /\ r.self.size = s.size + 1
              /\ r.it = Iter(r.self.data, k)
              /\ s.size < s.capacity =>
                    r.self.capacity = s.capacity /\ r.self.data = s.data
              /\ s.size = s.capacity =>
                    r.self.capacity = Max(1, 2 * s.capacity) /\ r.self.data # s.data

\* an insertion in front of two different elements, in place
C5_Witness ==
    /\ live["A"] /\ vec["A"].size = 2 /\ vec["A"].capacity = 4
    /\ Elems(heap, vec["A"]) = <<1, 0>>
    /\ LET r == InsertInt(M, vec["A"], 0, 0, 0)
       IN Returned(r) /\ Elems(r.m.h, r.self) = <<0, 1, 0>> /\ r.it = Iter(vec["A"].data, 0)

\* C6: Erase(begin + k) with 0 <= k < size yields s[0..k) ++ s[k+1..size),
\* decreases size by exactly 1, leaves capacity unchanged and returns
\* begin + k, which is end when the last element was erased.
C6_Erase ==
    \A a \in Live : \A k \in 0 .. vec[a].size - 1 :
        LET s == vec[a]
            e == Elems(heap, s)
            r == EraseOp(M, s, k)
        IN Returned(r) =>
              /\ Elems(r.m.h, r.self) = SubSeq(e, 1, k) \o SubSeq(e, k + 2, s.size)
              /\ r.self.size = s.size - 1
              /\ r.self.capacity = s.capacity /\ r.self.data = s.data
              /\ r.it = Iter(r.self.data, k)
              /\ k = s.size - 1 => r.it = End(r.self)

\* erasing the middle one of three elements
C6_Witness ==
    /\ live["A"] /\ vec["A"].size = 3
    /\ Elems(heap, vec["A"]) = <<1, 0, 0>>
    /\ LET r == EraseOp(M, vec["A"], 0)
       IN Returned(r) /\ Elems(r.m.h, r.self) = <<0, 0>>

\* C7: Resize(n) with n < size keeps exactly the first n elements; with
\* n > size it keeps all elements and makes every element in [old size, n)
\* the default value, whatever the slots held; capacity is unchanged when
\* n <= capacity and becomes exactly n when n > capacity.
C7_Resize ==
    \A a \in Live : \A n \in Args : \A avail \in Room :
        LET s == vec[a]
            e == Elems(heap, s)
            r == ResizeOp(M, s, n, avail)
        IN Returned(r) =>
              /\ r.self.size = n
              /\ n <= s.size => Elems(r.m.h, r.self) = SubSeq(e, 1, n)
              /\ n > s.size =>
                    Elems(r.m.h, r.self) = e \o [i \in 1 .. n - s.size |-> Default]
              /\ n <= s.capacity =>
                    r.self.capacity = s.capacity /\ r.self.data = s.data
              /\ n > s.capacity => r.self.capacity = n

\* a stale non-default value past the end that a growing Resize exposes
C7_Witness ==
    /\ live["A"] /\ vec["A"].size = 1 /\ vec["A"].capacity = 2
    /\ heap[vec["A"].data] = <<1, 1>>
    /\ LET r == ResizeOp(M, vec["A"], 2, 0)
       IN Returned(r) /\ Elems(r.m.h, r.self) = <<1, Default>>

\* C8: Reserve(c) leaves size and the elements unchanged; with c <= capacity
\* it changes nothing, with c > capacity the capacity becomes exactly c.
\* Reserve(10) on an empty array gives size 0 and capacity 10, and At(i)
\* throws out_of_range for every index i.
C8_Reserve ==
    /\ \A a \in Live : \A c \in Args : \A avail \in Room :
          LET s == vec[a]
              r == ReserveOp(M, s, c, avail)
          IN Returned(r) =>
                /\ r.self.size = s.size
                /\ Elems(r.m.h, r.self) = Elems(heap, s)
                /\ c <= s.capacity => r.self = s /\ r.m.h = heap
                /\ c > s.capacity => r.self.capacity = c
    /\ \A proxy \in {FALSE, TRUE} :
          LET r == IF proxy THEN CtorReserve(M0, 10, 10) ELSE ReserveOp(M0, EmptyVec, 10, 10)
          IN /\ Returned(r) /\ r.self.size = 0 /\ r.self.capacity = 10
             /\ \A i \in 0 .. 10 : AtOp(r.m, r.self, i).ex = "out_of_range"

\* a reservation that moves two elements into a larger buffer
C8_Witness ==
    /\ live["A"] /\ vec["A"].size = 2 /\ vec["A"].capacity = 2
    /\ Elems(heap, vec["A"]) = <<0, 1>>
    /\ LET r == ReserveOp(M, vec["A"], 4, HeapSize - 2)
       IN Returned(r) /\ r.self.capacity = 4 /\ r.self.data # vec["A"].data
          /\ Elems(r.m.h, r.self) = <<0, 1>>

\* the outcomes of every mutating call that can be made on the array s
\* alone, and of copy-assigning rhs to it
CallsOn(s, rhs) ==
    {PushBackOp(M, s, v, avail) : v \in Values, avail \in Avail(PairHeap)}
    \cup {InsertInt(M, s, k[1], k[2], avail) :
             k \in (0 .. s.size) \X Values, avail \in Avail(PairHeap)}
    \cup {EraseOp(M, s, k) : k \in 0 .. s.size - 1}
    \cup (IF s.size > 0 THEN {PopBackOp(M, s)} ELSE {})
    \cup {ClearOp(M, s), Dtor(M, s)}
    \cup {ResizeOp(M, s, n, avail) : n \in Args, avail \in Avail(PairHeap)}
    \cup {ReserveOp(M, s, n, avail) : n \in Args, avail \in Avail(PairHeap)}
    \cup {CopyAssignOp(M, s, rhs, FALSE, avail) : avail \in Avail(PairHeap)}

\* copying rhs into a new array, or into the array s, gave an equal array
\* in storage of its own and left rhs alone
CopiedFrom(r, rhs) ==
    /\ OperatorEq(r.m, r.self, rhs) = [f |-> "none", v |-> TRUE]
    /\ Elems(r.m.h, r.self) = Elems(heap, rhs)
    /\ Buffer(r.m.h, rhs) = Buffer(heap, rhs)
    /\ r.self.data # NULL => r.self.data # rhs.data

\* C9: copy-constructing or copy-assigning B from A yields B == A with A
\* unchanged, and no call on B afterwards changes A's size, capacity or
\* elements: the two arrays share no storage.
C9_CopyIsIndependent ==
    /\ \A b \in Live : \A avail \in Avail(PairHeap) :
          LET r == CtorCopy(M, vec[b], avail)
          IN Returned(r) => CopiedFrom(r, vec[b])
    /\ \A a, b \in Live : \A avail \in Avail(PairHeap) :
          LET r == CopyAssignOp(M, vec[a], vec[b], FALSE, avail)
          IN a # b /\ Returned(r) => CopiedFrom(r, vec[b]) /\ r.other = vec[b]
    /\ \A a, b \in Live : a # b /\ vec[a].data = vec[b].data => vec[a].data = NULL
    /\ \A a, b \in Live : \A r \in CallsOn(vec[b], vec[a]) :
          a # b /\ r.m.f = "none" =>
             /\ Buffer(r.m.h, vec[a]) = Buffer(heap, vec[a])
             /\ r.self.data # NULL => r.self.data # vec[a].data

\* A holds an element in a buffer of two slots; its copy is equal, lives in
\* another allocation, and erasing the copy's element leaves A as it was
C9_Witness ==
    /\ live["A"] /\ ~live["B"]
    /\ vec["A"].size = 1 /\ vec["A"].capacity = 2 /\ Elems(heap, vec["A"]) = <<1>>
    /\ LET r == CtorCopy(M, vec["A"], PairHeap - 2)
           e == EraseOp(r.m, r.self, 0)
       IN /\ Returned(r) /\ CopiedFrom(r, vec["A"])
          /\ Returned(e) /\ e.self.size = 0
          /\ Buffer(e.m.h, vec["A"]) = Buffer(heap, vec["A"])

\* C10 as claimed: the copy has the size and the capacity of the original.
C10_CopyKeepsCapacity ==
    \A b \in Live : \A avail \in Avail(PairHeap) :
        LET r == CtorCopy(M, vec[b], avail)
        IN Returned(r) =>
              r.self.size = vec[b].size /\ r.self.capacity = vec[b].capacity

\* C10 amended: the copy has the size and the elements of the original in a
\* new buffer of exactly size slots: its capacity is the original's size.
C10_CopyCapacityIsSize ==
    \A b \in Live : \A avail \in Avail(PairHeap) :
        LET r == CtorCopy(M, vec[b], avail)
        IN Returned(r) =>
              /\ r.self.size = vec[b].size
              /\ r.self.capacity = vec[b].size
              /\ Elems(r.m.h, r.self) = Elems(heap, vec[b])
              /\ Len(Buffer(r.m.h, r.self)) = vec[b].size
              /\ r.self.data # NULL => r.self.data # vec[b].data

\* an original with fewer elements than slots, and its copy
C10_Witness ==
    \E b \in Live :
        /\ vec[b].size = 1 /\ vec[b].capacity = 2
        /\ LET r == CtorCopy(M, vec[b], PairHeap - 2)
           IN Returned(r) /\ r.self.size = 1 /\ r.self.capacity = 1

\* C11: move-constructing B from any array A gives B the buffer, size and
\* capacity A had (the same allocation, no slot written, nothing allocated)
\* and leaves A with size 0, capacity 0 and no allocation.
C11_MoveConstruct ==
    \A b \in Live :
        LET r == CtorMove(M, vec[b])
        IN /\ Returned(r)
           /\ r.self = vec[b]
           /\ r.m.h = heap
           /\ Elems(r.m.h, r.self) = Elems(heap, vec[b])
           /\ r.other = EmptyVec

\* A holds one element in a buffer of two slots and B is not constructed:
\* B move-constructed from A takes over that buffer
C11_Witness ==
    /\ live["A"] /\ ~live["B"]
    /\ vec["A"].size = 1 /\ vec["A"].capacity = 2 /\ heap[vec["A"].data] = <<1, 0>>
    /\ LET r == CtorMove(M, vec["A"])
       IN r.self.data = vec["A"].data /\ Elems(r.m.h, r.self) = <<1>>
          /\ r.other = EmptyVec

\* the call threw bad_alloc and left the heap and the fields of s as they were
FailedUnchanged(r, s) ==
    r.ex = "bad_alloc" /\ r.m = M /\ r.self = s /\ r.it = NoIter

\* C12: when operator new[] cannot provide the new buffer (it has avail slots
\* left and more are asked for), PushBack and Insert at size == capacity,
\* Resize above capacity and Reserve above capacity throw bad_alloc, and the
\* array's buffer, size, capacity and elements are what they were.
C12_AllocFailureKeepsState ==
    \A a \in Live : \A avail \in 0 .. HeapSize :
        LET s == vec[a]
        IN /\ s.size = s.capacity /\ GrowCapacity(s.capacity) > avail =>
                /\ \A v \in Values : FailedUnchanged(PushBackOp(M, s, v, avail), s)
                /\ \A k \in 0 .. s.size : \A v \in Values :
                      FailedUnchanged(InsertInt(M, s, k, v, avail), s)
           /\ \A n \in Args : n > s.capacity /\ n > avail =>
                /\ FailedUnchanged(ResizeOp(M, s, n, avail), s)
                /\ FailedUnchanged(ReserveOp(M, s, n, avail), s)

\* a full array of four elements in a heap with two slots left: the push
\* asks for eight slots and fails, and so do Insert, Resize and Reserve when
\* nothing is left
C12_Witness ==
    /\ live["A"] /\ vec["A"].size = 4 /\ vec["A"].capacity = 4
    /\ Elems(heap, vec["A"]) = <<1, 0, 0, 1>>
    /\ PushBackOp(M, vec["A"], 1, HeapSize - 4).ex = "bad_alloc"
    /\ InsertInt(M, vec["A"], 2, 1, 0).ex = "bad_alloc"

\* the outcomes of the capacity-changing calls that can be made on s when
\* Type's move assignment throws after left assignments
Migrations(s, left) ==
    {PushBackOp(MT(left), s, v, avail) : v \in {x \in Values : s.size = s.capacity}, avail \in Room}
    \cup {InsertInt(MT(left), s, k[1], k[2], avail) :
             k \in {x \in (0 .. s.size) \X Values : s.size = s.capacity}, avail \in Room}
    \cup {ResizeOp(MT(left), s, n, avail) : n \in {x \in Args : x > s.capacity}, avail \in Room}
    \cup {ReserveOp(MT(left), s, n, avail) : n \in {x \in Args : x > s.capacity}, avail \in Room}

\* C13: when a move assignment throws while Recreate, Resize or Reserve
\* migrates the elements into the new buffer, the array keeps its old buffer,
\* size and capacity and every element in [0, size) keeps its value.
C13_MigrationFailureKeepsElements ==
    \A a \in Live : \A left \in Lefts : \A r \in Migrations(vec[a], left) :
        r.ex = "move_throw" =>
            /\ r.self = vec[a]
            /\ Elems(r.m.h, r.self) = Elems(heap, vec[a])

\* C14: on an array with size < capacity, Insert(begin, v) followed by
\* Erase(begin) gives back the element sequence, the size and the capacity
\* (and the buffer) the array had, for a scalar Type and for a class Type
\* whose moves leave their sources moved-from.
C14_InsertEraseRoundTrip ==
    \A a \in Live : \A v \in Values : \A m \in {M, MT(Plenty)} :
        LET s == vec[a]
            i == InsertInt(m, s, 0, v, 0)
            e == EraseOp(i.m, i.self, 0)
        IN s.size < s.capacity =>
              /\ Returned(i) /\ i.it = Begin(i.self)
              /\ Elems(i.m.h, i.self) = <<v>> \o Elems(heap, s)
              /\ Returned(e) /\ e.it = Begin(e.self)
              /\ e.self = s
              /\ Elems(e.m.h, e.self) = Elems(heap, s)

\* two different elements in a buffer of four slots: 0 is inserted in front
\* of them and erased again
C14_Witness ==
    /\ live["A"] /\ vec["A"].size = 2 /\ vec["A"].capacity = 4
    /\ Elems(heap, vec["A"]) = <<1, 0>>
    /\ LET i == InsertInt(M, vec["A"], 0, 0, 0)
           e == EraseOp(i.m, i.self, 0)
       IN /\ Elems(i.m.h, i.self) = <<0, 1, 0>>
          /\ Elems(e.m.h, e.self) = <<1, 0>> /\ e.self = vec["A"]

\* C15: Clear sets size to 0 and leaves capacity, the buffer pointer and the
\* heap as they were (nothing freed, nothing allocated, no slot written);
\* afterwards the array is empty and At(i) throws out_of_range for every i.
C15_Clear ==
    \A a \in Live :
        LET s == vec[a]
            r == ClearOp(M, s)
        IN /\ Returned(r)
           /\ r.self = Vec(s.data, 0, s.capacity)
           /\ r.m = M
           /\ Elems(r.m.h, r.self) = << >>
           /\ \A i \in Args : AtOp(r.m, r.self, i) = Throw(M, r.self, "out_of_range")

\* an array of two elements: after Clear it has no element and still its
\* buffer of two slots
C15_Witness ==
    \E a \in Live :
        /\ vec[a].size = 2 /\ vec[a].capacity = 2 /\ heap[vec[a].data] = <<1, 0>>
        /\ LET r == ClearOp(M, vec[a])
           IN r.self.size = 0 /\ r.self.capacity = 2 /\ r.m.h[r.self.data] = <<1, 0>>

\* x is lexicographically less than y
SeqLess(x, y) ==
    \E k \in 1 .. Len(y) :
        /\ \A i \in 1 .. k - 1 : i <= Len(x) /\ x[i] = y[i]
        /\ k > Len(x) \/ x[k] < y[k]

\* an array whose elements can be read: it is empty or has a buffer
Readable(s) == s.size = 0 \/ s.data # NULL

\* C16: for any two arrays, each comparison operator returns the result of
\* comparing the element sequences [0, size): == is equality of the
\* sequences, < is the lexicographic order, and <=, >, >=, != are
\* (< or ==), (not <=), (not <), (not ==); the capacities and the slots in
\* [size, capacity) play no part.
C16_Comparisons ==
    \A a, b \in Live :
        LET x == Elems(heap, vec[a])
            y == Elems(heap, vec[b])
            eq == OperatorEq(M, vec[a], vec[b])
            ne == OperatorNe(M, vec[a], vec[b])
            lt == OperatorLt(M, vec[a], vec[b])
            le == OperatorLe(M, vec[a], vec[b])
            gt == OperatorGt(M, vec[a], vec[b])
            ge == OperatorGe(M, vec[a], vec[b])
        IN Readable(vec[a]) /\ Readable(vec[b]) =>
              /\ \A c \in {eq, ne, lt, le, gt, ge} : c.f = "none"
              /\ eq.v <=> x = y
              /\ lt.v <=> SeqLess(x, y)
              /\ le.v <=> (lt.v \/ eq.v)
              /\ gt.v <=> ~le.v
              /\ ge.v <=> ~lt.v
              /\ ne.v <=> ~eq.v

\* A holds <<1>> in a buffer <<1, 1>> of two slots, B holds <<1>> in a
\* buffer of one slot: they are equal, and neither is less
C16_Witness ==
    /\ live["A"] /\ live["B"]
    /\ vec["A"].size = 1 /\ vec["A"].capacity = 2 /\ heap[vec["A"].data] = <<1, 1>>
    /\ vec["B"].size = 1 /\ vec["B"].capacity = 1 /\ heap[vec["B"].data] = <<1>>
    /\ OperatorEq(M, vec["A"], vec["B"]).v
    /\ ~OperatorLt(M, vec["A"], vec["B"]).v
    /\ OperatorGe(M, vec["A"], vec["B"]).v

\* A holds <<0>> and B holds <<0, 1>>: a proper prefix is less
C16_WitnessPrefix ==
    /\ live["A"] /\ live["B"]
    /\ Elems(heap, vec["A"]) = <<0>> /\ Elems(heap, vec["B"]) = <<0, 1>>
    /\ OperatorLt(M, vec["A"], vec["B"]).v
    /\ ~OperatorEq(M, vec["A"], vec["B"]).v

\* C17: swap exchanges the buffers, sizes and capacities of two arrays and
\* writes no slot: afterwards each array has the other's former elements,
\* size and capacity; a second swap restores both, and swapping an array
\* with itself leaves it as it was.
C17_Swap ==
    \A a, b \in Live :
        LET r == SwapOp(M, vec[a], vec[b], a = b)
            t == SwapOp(r.m, r.self, r.other, a = b)
        IN /\ Returned(r) /\ r.m = M
           /\ a # b =>
                /\ r.self = vec[b] /\ r.other = vec[a]
                /\ Elems(r.m.h, r.self) = Elems(heap, vec[b])
                /\ Elems(r.m.h, r.other) = Elems(heap, vec[a])
                /\ Returned(t) /\ t.m = M
                /\ t.self = vec[a] /\ t.other = vec[b]
           /\ a = b => r.self = vec[a] /\ r.other = vec[a]

\* two arrays that differ in buffer, size and capacity, and their swap
C17_Witness ==
    /\ live["A"] /\ live["B"]
    /\ vec["A"].size = 1 /\ vec["A"].capacity = 2 /\ Elems(heap, vec["A"]) = <<1>>
    /\ vec["B"].size = 0 /\ vec["B"].capacity = 1
    /\ LET r == SwapOp(M, vec["A"], vec["B"], FALSE)
       IN /\ r.self = vec["B"] /\ r.other = vec["A"]
          /\ SwapOp(M, vec["A"], vec["A"], TRUE).self = vec["A"]

BLive == {x \in Bufs : blive[x]}

\* C18: no two constructed ArrayPtr objects point to one allocation, in any
\* state reached by size construction, move construction, move assignment,
\* swap and Release; a move construction, a move assignment from another
\* object and Release leave the source with nullptr and pass its pointer on,
\* and a self-move-assignment leaves the object with the pointer it had.
C18_ExclusiveOwnership ==
    /\ \A x, y \in BLive : x # y /\ buf[x] = buf[y] => buf[x] = NULL
    /\ \A x \in BLive : buf[x] # NULL => Allocated(heap, buf[x]) /\ buf[x] \notin held
    /\ \A y \in BLive :
          /\ ArrayPtrMoveCtor(buf[y]) = <<buf[y], NULL>>
          /\ ArrayPtrRelease(buf[y]) = <<NULL, buf[y]>>
          /\ ArrayPtrMoveAssign(buf[y], buf[y], TRUE) = <<buf[y], buf[y]>>
          /\ \A x \in BLive \ {y} :
                ArrayPtrMoveAssign(buf[x], buf[y], FALSE) = <<buf[y], NULL>>

\* P and Q own different allocations and the caller holds a third it got
\* from Release; moving Q into P leaves only P pointing to Q's allocation
C18_Witness ==
    /\ blive["P"] /\ blive["Q"]
    /\ buf["P"] # NULL /\ buf["Q"] # NULL /\ buf["P"] # buf["Q"]
    /\ held # {}
    /\ ArrayPtrMoveAssign(buf["P"], buf["Q"], FALSE) = <<buf["Q"], NULL>>

\* the constructed ArrayPtr objects that point to the allocation p
OwnersOf(p) == {x \in BLive : buf[x] = p}

\* C19: no allocation is leaked: every allocation made and not yet freed is
\* pointed to by exactly one constructed ArrayPtr or is a pointer Release
\* handed to the caller, so none has been left without any pointer to it.
C19_NoLeak ==
    /\ lost = 0
    /\ \A p \in Ptrs : Allocated(heap, p) =>
          (Cardinality(OwnersOf(p)) = 1 /\ p \notin held)
          \/ (OwnersOf(p) = {} /\ p \in held)

\* C20: in every step that PushBack, PopBack, Insert, Erase, Clear, Resize
\* or Reserve takes on an array, its capacity does not decrease, and its
\* buffer is replaced only if the capacity strictly increases.
C20_CapacityNeverDecreases ==
    [][live["A"] /\ live'["A"] =>
          /\ vec'["A"].capacity >= vec["A"].capacity
          /\ vec'["A"].data # vec["A"].data =>
                vec'["A"].capacity > vec["A"].capacity]_vars

\* an array emptied by PopBack or Clear that kept its two slots, and whose
\* Resize(3) replaces the buffer by a larger one
C20_Witness ==
    /\ live["A"] /\ vec["A"].size = 0 /\ vec["A"].capacity = 2
    /\ heap[vec["A"].data] = <<1, 0>>
    /\ LET r == ResizeOp(M, vec["A"], 3, HeapSize - 2)
       IN Returned(r) /\ r.self.capacity = 3 /\ r.self.data # vec["A"].data
====
